---- MODULE Spec2Model ----
(***************************************************************************)
(* pin-github-stars.py: one-way import of a user's starred GitHub          *)
(* repositories into Pinboard bookmarks.                                   *)
(*                                                                         *)
(* The model follows main() step by step.  A step is everything the        *)
(* script does between two network round trips.  GitHub (the paginated     *)
(* /user/starred listing and its Link header) and Pinboard (posts/recent,  *)
(* posts/add) are the environment: the listing is derived from the list    *)
(* of stars, the answers to posts/add are chosen nondeterministically.     *)
(***************************************************************************)
EXTENDS Integers, Sequences, FiniteSets, TLC

\* ---- program constants -------------------------------------------------
SLEEP_TIME == 3
MAX_RETRIES == 10

\* ---- bounds of the model -----------------------------------------------
\* largest number of starred repositories
MaxStars == 10
\* largest page size of the listing
MaxPerPage == 2
\* number of runs of the script in one behaviour
MaxRuns == 3
\* number of environment faults (failed page fetch, publish answer other
\* than 200/done on a first attempt) in one behaviour
MaxFaults == 1
\* number of times one run requests a page number again
MaxRepeat == 1
\* number of repositories the user stars between two runs
MaxNew == 2
\* filter_stars on its own: longest page, number of distinct repositories
MaxLen == 3
MaxNameId == 2

\* ---- values -------------------------------------------------------------
\* A full_name is abstracted to the repository it names (id) and whether
\* the spelling contains upper-case letters (up): two spellings of one id
\* differ only by case.
Name(i) == [id |-> i, up |-> (i % 2 = 0)]

\* a comparison that forgets to fold the case
lower_kept(n) == n

\* str.lower()
lower(n) == [id |-> n.id, up |-> FALSE]

Range(q) == {q[k] : k \in 1..Len(q)}

Min(a, b) == IF a <= b THEN a ELSE b

\* Python's None / a value, for most_recent
None == [some |-> FALSE, val |-> Name(0)]
Some(n) == [some |-> TRUE, val |-> n]

\* decimal digits of a natural number, as the text of a page=<n> link
RECURSIVE Digits(_)
Digits(n) == IF n < 10 THEN <<n>> ELSE Digits(n \div 10) \o <<n % 10>>

\* int() of a digit string
RECURSIVE ToInt(_)
ToInt(d) ==
    IF Len(d) = 0 THEN 0
    ELSE 10 * ToInt(SubSeq(d, 1, Len(d) - 1)) + d[Len(d)]

\* Python 2 str <= str: lexicographic on the characters
RECURSIVE StrLE(_, _)
StrLE(a, b) ==
    IF Len(a) = 0 THEN TRUE
    ELSE IF Len(b) = 0 THEN FALSE
    ELSE IF a[1] < b[1] THEN TRUE
    ELSE IF a[1] > b[1] THEN FALSE
    ELSE StrLE(Tail(a), Tail(b))

\* a Python value that is an int or a str of digits
PyInt(n) == [t |-> "int", d |-> Digits(n)]
PyStr(d) == [t |-> "str", d |-> d]

\* Python 2 `a <= b` for such values (an int sorts before any str)
PyLE(a, b) ==
    IF a.t = "int" /\ b.t = "int" THEN ToInt(a.d) <= ToInt(b.d)
    ELSE IF a.t = "str" /\ b.t = "str" THEN StrLE(a.d, b.d)
    ELSE a.t = "int"

VARIABLES
    \* environment
    nStars,          \* the user has starred repositories 1..nStars, in this order
    per_page,        \* page size of the listing
    store,           \* descriptions of the github-star bookmarks, oldest first
    \* main()
    pc,              \* "idle", "next", "star", "retry", "done", "fatal"
    sort_dir, most_recent, hit_most_recent,
    status,          \* status of the page the for loop of line 183 received
    result, idx,     \* the page being published and the position in it
    r, s, retry,     \* last result_code and status of posts/add, retry counter
    \* get_github_stars()
    gen,             \* "new" or "yielded"
    page, last, headers,
    \* observation
    run,             \* number of runs started
    stars0,          \* nStars when the current run started
    fetched,         \* page numbers requested in this run, in order
    submitted,       \* ids whose first posts/add was issued in this run, in order
    codes,           \* answers to posts/add for the current repository
    sleeps,          \* back-off waits slept for the current repository
    added,           \* bookmarks created in this run
    faults,          \* environment faults so far
    runClean,        \* this run: every fetch 200, every posts/add 200/done
    allClean,        \* every earlier run was clean and ended in Done
    pubEarlier,      \* ids published by earlier runs
    prev,            \* summary of the previous run
    log,             \* the last line printed: "info", "rate", "warn" or "error"
    \* filter_stars on its own
    ft,
    \* add_bookmark's request on its own
    ab

envVars == <<nStars, per_page, store>>
mainVars == <<pc, sort_dir, most_recent, hit_most_recent, status, result, idx,
              r, s, retry>>
genVars == <<gen, page, last, headers>>
obsVars == <<run, stars0, fetched, submitted, codes, sleeps, added, faults,
             runClean, allClean, pubEarlier, prev, log>>
vars == <<envVars, mainVars, genVars, obsVars, ft, ab>>

\* ---- GitHub: the paginated listing ---------------------------------------
\* The listing of n stars in the requested direction (by star date).
Listing(dir, n) ==
    [k \in 1..n |-> IF dir = "asc" THEN Name(k) ELSE Name(n + 1 - k)]

NumPages(n, pp) == (n + pp - 1) \div pp

\* r.json() of page p
PageOf(dir, n, pp, p) ==
    SubSeq(Listing(dir, n), (p - 1) * pp + 1, Min(p * pp, n))

NoHeaders == [has_link |-> FALSE, link |-> <<>>]

Rel(p, rel) == [page |-> Digits(p), rel |-> rel]

\* r.headers of page p: no Link header when everything fits one page, next
\* and last on every page but the last, first and prev only on the last.
LinkHeader(n, pp, p) ==
    LET L == NumPages(n, pp) IN
    IF L <= 1 THEN NoHeaders
    ELSE IF p < L THEN
        [has_link |-> TRUE,
         link |-> IF p = 1
                  THEN <<Rel(p + 1, "next"), Rel(L, "last")>>
                  ELSE <<Rel(p - 1, "prev"), Rel(p + 1, "next"),
                         Rel(L, "last"), Rel(1, "first")>>]
    ELSE [has_link |-> TRUE, link |-> <<Rel(1, "first"), Rel(L - 1, "prev")>>]

\* re.search(r'page=(\d+)>; rel="next",.*page=(\d+)>; rel="last"', link):
\* the first next link that a last link follows, and the last such last link.
re_search(link) ==
    LET nexts == {i \in 1..Len(link) :
                    /\ link[i].rel = "next"
                    /\ \E j \in (i + 1)..Len(link) : link[j].rel = "last"}
    IN IF nexts = {} THEN [m |-> FALSE, g1 |-> <<>>, g2 |-> <<>>]
       ELSE LET i == CHOOSE x \in nexts : \A y \in nexts : x <= y
                j == CHOOSE x \in (i + 1)..Len(link) :
                        /\ link[x].rel = "last"
                        /\ \A y \in (i + 1)..Len(link) :
                              link[y].rel = "last" => y <= x
            IN [m |-> TRUE, g1 |-> link[i].page, g2 |-> link[j].page]

\* ---- filter_stars --------------------------------------------------------
\* The for loop of filter_stars from index i on.
RECURSIVE filter_from(_, _, _)
filter_from(stars, full_name, i) ==
    IF i > Len(stars) THEN <<stars, FALSE>>
    ELSE IF lower(stars[i]) = lower(full_name)
         THEN <<SubSeq(stars, 1, i - 1), TRUE>>
         ELSE filter_from(stars, full_name, i + 1)

filter_stars(stars, full_name) == filter_from(stars, full_name, 1)

\* ---- Pinboard -------------------------------------------------------------
\* posts/recent?tag=github-star&count=1: the newest bookmark or None
get_most_recent_bookmark(st) ==
    IF Len(st) = 0 THEN None ELSE Some(st[Len(st)])

\* what posts/add can answer: status and result_code
Responses == [s : {200, 429}, r : {"done", "error"}]

\* posts/add with replace=no: a bookmark is created when the answer is done
\* and the store holds no bookmark of that repository yet
add_bookmark(st, star, resp) ==
    IF resp.r = "done" /\ star \notin Range(st) THEN Append(st, star) ELSE st

\* ---- add_bookmark: the request ---------------------------------------------
\* A str is a sequence of pieces; a nullable field is None or a str.
NoneStr == [some |-> FALSE, val |-> <<>>]
Str(x) == [some |-> TRUE, val |-> x]

\* Python truth of a nullable str: None and '' are false
Truthy(x) == x.some /\ x.val # <<>>

\* str.lower() of one piece
LowerPiece(c) == IF c = "Python" THEN "python" ELSE c

LowerStr(x) == [k \in 1..Len(x) |-> LowerPiece(x[k])]

\* description += '...' of line 64: None += str raises TypeError
Concat(a, b) ==
    IF a.some THEN [raised |-> FALSE, v |-> Str(a.val \o b)]
    ELSE [raised |-> TRUE, v |-> NoneStr]

\* lines 62-74: the params of the posts/add request, or the TypeError that
\* ends the process before any request is made
add_bookmark_params(gh_data) ==
    LET description ==
            IF Truthy(gh_data.homepage)
            THEN Concat(gh_data.description,
                        <<"\n\nProject homepage: ">> \o gh_data.homepage.val)
            ELSE [raised |-> FALSE, v |-> gh_data.description]
        tags ==
            IF Truthy(gh_data.language)
            THEN <<"github-star">> \o LowerStr(gh_data.language.val)
            ELSE <<"github-star">>
    IN [raised |-> description.raised,
        description |-> gh_data.full_name,
        url |-> gh_data.html_url,
        extended |-> description.v,
        tags |-> tags,
        replace |-> "no"]

\* ---- initial state --------------------------------------------------------
NoRepo == [full_name |-> Name(0), html_url |-> 0, description |-> NoneStr,
           homepage |-> NoneStr, language |-> NoneStr]

NoPublish == [gh_data |-> NoRepo, out |-> add_bookmark_params(NoRepo), ret |-> FALSE]

NoFilterRun == [stars |-> <<>>, full_name |-> Name(0), out |-> <<<<>>, FALSE>>, ret |-> FALSE]

NoPrev == [end |-> "none", added |-> 0, stars |-> 0, missing |-> FALSE]

ProgramInit ==
    /\ store = <<>>
    /\ pc = "idle"
    /\ sort_dir = "desc"
    /\ most_recent = None
    /\ hit_most_recent = FALSE
    /\ status = 200
    /\ result = <<>>
    /\ idx = 1
    /\ r = "done"
    /\ s = 200
    /\ retry = 1
    /\ gen = "new"
    /\ page = PyInt(1)
    /\ last = PyInt(1)
    /\ headers = NoHeaders
    /\ run = 0
    /\ fetched = <<>>
    /\ submitted = <<>>
    /\ codes = <<>>
    /\ sleeps = <<>>
    /\ added = 0
    /\ faults = 0
    /\ runClean = TRUE
    /\ allClean = TRUE
    /\ pubEarlier = {}
    /\ prev = NoPrev
    /\ log = "info"

Init ==
    /\ nStars \in 0..MaxStars
    /\ per_page \in 1..MaxPerPage
    /\ stars0 = nStars
    /\ ProgramInit
    /\ ft = NoFilterRun
    /\ ab = NoPublish

\* ---- main(): lines 174-180 -----------------------------------------------
\* A run starts: the cursor is resolved from the store and the generator
\* is created.  Runs do not overlap.
StartRun ==
    /\ pc \in {"idle", "done", "fatal"}
    /\ run < MaxRuns
    /\ run' = run + 1
    /\ stars0' = nStars
    /\ most_recent' = get_most_recent_bookmark(store)
    /\ sort_dir' = IF most_recent'.some THEN "desc" ELSE "asc"
    /\ hit_most_recent' = FALSE
    /\ gen' = "new"
    /\ page' = PyInt(1)
    /\ last' = PyInt(1)
    /\ headers' = NoHeaders
    /\ pc' = "next"
    /\ status' = 200
    /\ log' = "info"
    /\ result' = <<>>
    /\ idx' = 1
    /\ r' = "done"
    /\ s' = 200
    /\ retry' = 1
    /\ fetched' = <<>>
    /\ submitted' = <<>>
    /\ codes' = <<>>
    /\ sleeps' = <<>>
    /\ added' = 0
    /\ runClean' = TRUE
    /\ allClean' = (allClean /\ (pc = "idle" \/ (pc = "done" /\ runClean)))
    /\ pubEarlier' = pubEarlier \cup Range(submitted)
    /\ prev' = IF pc = "idle" THEN NoPrev
               ELSE [end |-> pc, added |-> added, stars |-> stars0,
                     missing |-> \E i \in 1..stars0 : Name(i) \notin Range(store)]
    /\ UNCHANGED <<envVars, faults, ft, ab>>

\* The user stars one more repository between two runs.
AddStar ==
    /\ pc \in {"done", "fatal"}
    /\ run < MaxRuns
    /\ nStars < MaxStars
    /\ nStars - stars0 < MaxNew
    /\ nStars' = nStars + 1
    /\ UNCHANGED <<per_page, store, mainVars, genVars, obsVars, ft, ab>>

\* ---- get_github_stars(): lines 98-111 ------------------------------------
\* The generator is resumed.  After a yield it reads the Link header of the
\* page it yielded (lines 107-111); then the while condition is evaluated
\* (line 101).
GenResume ==
    LET m == re_search(headers.link)
        parsed == gen = "yielded" /\ headers.has_link
        brk == parsed /\ ~m.m
        pg == IF parsed /\ m.m THEN PyStr(m.g1) ELSE page
        la == IF parsed /\ m.m THEN PyStr(m.g2) ELSE last
    IN [stop |-> brk \/ ~PyLE(pg, la), page |-> pg, last |-> la]

\* main() without the exit of lines 204-205
AfterStarNoExit(i, res, hit) ==
    IF i < Len(res) THEN "star" ELSE "next"

\* where main() goes once position i of the page res is dealt with
AfterStar(i, res, hit) ==
    IF i < Len(res) THEN "star" ELSE IF hit THEN "done" ELSE "next"

\* The generator is exhausted (line 101 false, or the break of line 110):
\* the for loop of line 183 ends and main() returns.  The exit of lines
\* 204-205 is the "done" of AfterStar.
PagerEnds ==
    /\ pc = "next"
    /\ GenResume.stop
    /\ pc' = "done"
    /\ UNCHANGED <<envVars, sort_dir, most_recent, hit_most_recent, status, result,
                   idx, r, s, retry, genVars, obsVars, ft, ab>>

\* a status check that lets every page through
PageOKAny(st) == TRUE

\* line 184
PageOK(st) == st = 200

\* The generator requests a page and yields it; main() checks the status
\* and filters the page (lines 102-106, 183-187).
FetchPage(st) ==
    LET g == GenResume
        p == ToInt(g.page.d)
        json == PageOf(sort_dir, nStars, per_page, p)
        f == IF most_recent.some THEN filter_stars(json, most_recent.val)
             ELSE <<json, hit_most_recent>>
    IN
    /\ pc = "next"
    /\ ~g.stop
    /\ Cardinality({k \in 1..Len(fetched) : fetched[k] = p}) <= MaxRepeat
    /\ st # 200 => faults < MaxFaults
    /\ faults' = IF st # 200 THEN faults + 1 ELSE faults
    /\ runClean' = (runClean /\ st = 200)
    /\ status' = st
    /\ page' = g.page
    /\ last' = g.last
    /\ gen' = "yielded"
    /\ headers' = LinkHeader(nStars, per_page, p)
    /\ fetched' = Append(fetched, p)
    /\ IF ~PageOK(st)
       THEN /\ pc' = "fatal"
            /\ log' = "error"
            /\ result' = <<>>
            /\ UNCHANGED <<idx, hit_most_recent>>
       ELSE /\ log' = log
            /\ result' = f[1]
            /\ hit_most_recent' = f[2]
            /\ idx' = 1
            /\ pc' = AfterStar(0, f[1], f[2])
    /\ UNCHANGED <<envVars, sort_dir, most_recent, r, s, retry, run, stars0,
                   submitted, codes, sleeps, added, allClean, pubEarlier, prev,
                   ft, ab>>

\* ---- main(): lines 188-203 -----------------------------------------------
Created(st, star, resp) ==
    IF add_bookmark(st, star, resp) # st THEN 1 ELSE 0

\* sleep(SLEEP_TIME * retry) of line 195
BackOff(n) == SLEEP_TIME * n

\* the loop condition with the bound off by one
RetryWhileShort(st, n) == st = 429 /\ n < MAX_RETRIES

\* the loop condition without the test of the status
RetryWhileNoStatus(st, n) == n <= MAX_RETRIES

\* line 192
RetryWhile(st, n) == st = 429 /\ n <= MAX_RETRIES

\* First posts/add of the next repository of the page (lines 189-191), the
\* while condition (line 192) and, when it is false, the else branch (lines
\* 200-203: the warning for a result code other than done, the fixed pause).
FirstAttempt(resp) ==
    LET star == result[idx] IN
    /\ pc = "star"
    /\ resp \in Responses
    /\ (resp.s # 200 \/ resp.r # "done") => faults < MaxFaults
    /\ faults' = IF resp.s # 200 \/ resp.r # "done" THEN faults + 1 ELSE faults
    /\ runClean' = (runClean /\ resp.s = 200 /\ resp.r = "done")
    /\ store' = add_bookmark(store, star, resp)
    /\ added' = added + Created(store, star, resp)
    /\ submitted' = Append(submitted, star.id)
    /\ codes' = <<resp>>
    /\ sleeps' = <<>>
    /\ r' = resp.r
    /\ s' = resp.s
    /\ retry' = 1
    /\ IF RetryWhile(resp.s, 1)
       THEN pc' = "retry" /\ idx' = idx /\ log' = "info"
       ELSE /\ pc' = AfterStar(idx, result, hit_most_recent)
            /\ idx' = idx + 1
            /\ log' = IF resp.r # "done" THEN "warn" ELSE "info"
    /\ UNCHANGED <<nStars, per_page, sort_dir, most_recent, hit_most_recent,
                   status, result, genVars, run, stars0, fetched, allClean,
                   pubEarlier, prev, ft, ab>>

\* One pass of the retry loop (lines 193-199) and the while condition after
\* it; when the condition is false, the else branch (lines 200-203).
Retry(resp) ==
    LET star == result[idx] IN
    /\ pc = "retry"
    /\ resp \in Responses
    /\ runClean' = (runClean /\ resp.s = 200 /\ resp.r = "done")
    /\ sleeps' = Append(sleeps, BackOff(retry))
    /\ store' = add_bookmark(store, star, resp)
    /\ added' = added + Created(store, star, resp)
    /\ codes' = Append(codes, resp)
    /\ r' = resp.r
    /\ s' = resp.s
    /\ log' = IF resp.r # "done" THEN "error" ELSE "rate"
    /\ IF resp.r # "done"
       THEN pc' = "fatal" /\ retry' = retry /\ idx' = idx
       ELSE /\ retry' = retry + 1
            /\ IF RetryWhile(resp.s, retry + 1)
               THEN pc' = "retry" /\ idx' = idx
               ELSE pc' = AfterStar(idx, result, hit_most_recent) /\ idx' = idx + 1
    /\ UNCHANGED <<nStars, per_page, sort_dir, most_recent, hit_most_recent,
                   status, result, genVars, run, stars0, fetched, submitted,
                   faults, allClean, pubEarlier, prev, ft, ab>>

Next ==
    \/ StartRun
    \/ AddStar
    \/ PagerEnds
    \/ \E st \in {200, 403} : FetchPage(st)
    \/ \E resp \in Responses : FirstAttempt(resp)
    \/ \E resp \in Responses : Retry(resp)

Spec == Init /\ [][Next]_vars

\* ---- filter_stars on its own ----------------------------------------------
FilterNames == {[id |-> i, up |-> u] : i \in 1..MaxNameId, u \in BOOLEAN}

FilterPages == UNION {[1..n -> FilterNames] : n \in 0..MaxLen}

FilterInit ==
    /\ nStars = 0
    /\ per_page = 1
    /\ stars0 = 0
    /\ ProgramInit
    /\ ft \in [stars : FilterPages, full_name : FilterNames,
               out : {<<<<>>, FALSE>>}, ret : {FALSE}]
    /\ ab = NoPublish

\* filter_stars(stars, full_name) is called and returns
CallFilter ==
    /\ ~ft.ret
    /\ ft' = [ft EXCEPT !.out = filter_stars(ft.stars, ft.full_name), !.ret = TRUE]
    /\ UNCHANGED <<envVars, mainVars, genVars, obsVars, ab>>

FilterNext == CallFilter

FilterSpec == FilterInit /\ [][FilterNext]_vars

\* ---- add_bookmark's request on its own --------------------------------------
Descriptions == {NoneStr, Str(<<>>), Str(<<"a tool">>)}

Homepages == {NoneStr, Str(<<>>), Str(<<"http://example.org">>)}

Languages == {NoneStr, Str(<<>>), Str(<<"Python">>), Str(<<"c">>)}

Repos ==
    {[full_name |-> n, html_url |-> n.id, description |-> d, homepage |-> h,
      language |-> l] :
        n \in FilterNames, d \in Descriptions, h \in Homepages, l \in Languages}

PublishInit ==
    /\ nStars = 0
    /\ per_page = 1
    /\ stars0 = 0
    /\ ProgramInit
    /\ ft = NoFilterRun
    /\ ab \in [gh_data : Repos, out : {add_bookmark_params(NoRepo)}, ret : {FALSE}]

\* add_bookmark(gh_data, pb_api_token) builds its request
CallAddBookmark ==
    /\ ~ab.ret
    /\ ab' = [ab EXCEPT !.out = add_bookmark_params(ab.gh_data), !.ret = TRUE]
    /\ UNCHANGED <<envVars, mainVars, genVars, obsVars, ft>>

PublishNext == CallAddBookmark

PublishSpec == PublishInit /\ [][PublishNext]_vars

\* ---- properties -------------------------------------------------------------
Ids(q) == {q[k] : k \in 1..Len(q)}

UpTo(n) == [k \in 1..n |-> k]

NoDup(q) == \A i, j \in 1..Len(q) : i # j => q[i] # q[j]

Pages == NumPages(stars0, per_page)

FirstRun == ~most_recent.some

\* C6: a listing of L pages read by a consumer that never stops early (a
\* first run has no target, so main() never leaves the for loop early) is
\* read as pages 1, 2, ..., L, each once, in that order, and then ends.
C6_PagerVisitsAll ==
    (pc = "done" /\ FirstRun /\ runClean /\ Pages >= 1) => fetched = UpTo(Pages)

\* C7: a page that comes without a Link header is the final page: the pager
\* requests no page number a second time.
C7_NoHeaderEnds ==
    (gen = "yielded" /\ ~headers.has_link) => NoDup(fetched)

\* C8: filter_stars returns the entries before the first entry that equals
\* the target ignoring case, and True; without such an entry it returns the
\* page unchanged, and False.
C8_FilterCorrect ==
    ft.ret =>
        LET M == {i \in 1..Len(ft.stars) : ft.stars[i].id = ft.full_name.id} IN
        IF M = {} THEN ft.out = <<ft.stars, FALSE>>
        ELSE \E i \in M :
                /\ \A j \in M : i <= j
                /\ ft.out = <<[k \in 1..(i - 1) |-> ft.stars[k]], TRUE>>

\* C8 witness: the first match is spelled in another case than the target,
\* something precedes it and a second match follows it.
C8_Witness ==
    /\ ft.ret
    /\ Len(ft.stars) = 3
    /\ ft.stars[1].id # ft.full_name.id
    /\ ft.stars[2].id = ft.full_name.id
    /\ ft.stars[2].up # ft.full_name.up
    /\ ft.stars[3].id = ft.full_name.id
    /\ ft.out = <<<<ft.stars[1]>>, TRUE>>

Only429(q) == \A i \in 1..Len(q) : q[i].s = 429

RetriesDone(q) == \A i \in 2..Len(q) : q[i].r = "done"

Increasing(q) == \A i \in 1..(Len(q) - 1) : q[i] < q[i + 1]

C10_ExhaustedIsFatal ==
    (Len(codes) = MAX_RETRIES + 1 /\ Only429(codes)) => pc = "fatal"

InStore(i) == \E k \in 1..Len(store) : store[k].id = i

\* C1: a run ended fatally after creating some bookmarks, leaving starred
\* repositories without one; the next run sees the same stars, gets 200/done
\* for every posts/add and ends in Done.  Then every starred repository has
\* a bookmark.
C1_RerunCompletes ==
    (/\ pc = "done"
     /\ runClean
     /\ prev.end = "fatal"
     /\ prev.added >= 1
     /\ prev.missing
     /\ prev.stars = stars0)
    => \A i \in 1..stars0 : InStore(i)

\* C2: a run that ends in Done right after a run that ended in Done, with
\* the same stars, creates no bookmark.
C2_Idempotent ==
    (/\ pc = "done"
     /\ prev.end = "done"
     /\ prev.stars = stars0
     /\ allClean
     /\ runClean)
    => added = 0

\* C3: when every run so far ended in Done with every posts/add answered
\* 200/done, no run submits a repository that an earlier run submitted, no
\* run submits a repository twice, and when a run is Done every starred
\* repository has been submitted by some run.
C3_ExactlyOnce ==
    (allClean /\ runClean) =>
        /\ \A i \in Ids(submitted) : i \notin pubEarlier
        /\ NoDup(submitted)
        /\ pc = "done" => \A i \in 1..stars0 : i \in pubEarlier \cup Ids(submitted)

\* position of the first entry of the descending listing that equals the
\* target ignoring case; one past the end when there is none
FirstAt(x) ==
    LET D == Listing("desc", stars0)
        M == {k \in 1..stars0 : D[k].id = x.id}
    IN IF M = {} THEN stars0 + 1 ELSE CHOOSE k \in M : \A j \in M : k <= j

\* C4: a run that finds a most recent bookmark X lists in descending order
\* with target X, never submits X or an entry behind it in the listing, and
\* when it is Done it has submitted exactly the entries in front of X.
C4_ResumeDirection ==
    most_recent.some =>
        LET D == Listing("desc", stars0)
            k == FirstAt(most_recent.val)
        IN /\ sort_dir = "desc"
           /\ \A i \in Ids(submitted) : \E j \in 1..(k - 1) : D[j].id = i
           /\ (pc = "done" /\ runClean)
              => Ids(submitted) = {D[j].id : j \in 1..(k - 1)}

\* C5: a run that finds no bookmark lists in ascending order, filters
\* nothing, and when it is Done it has submitted every starred repository,
\* oldest first.
C5_FirstRunDirection ==
    (FirstRun /\ pc \in {"next", "star", "retry", "done", "fatal"}) =>
        /\ sort_dir = "asc"
        /\ ~hit_most_recent
        /\ (pc = "done" /\ runClean) => submitted = UpTo(stars0)

\* C11: an attempt answered 429 with a result code other than done, with
\* fewer than MAX_RETRIES retries made, is not fatal: the script is about to
\* retry the same repository.
C11_RateLimitRecoverable ==
    (/\ Len(codes) \in 1..MAX_RETRIES
     /\ codes[Len(codes)].s = 429
     /\ codes[Len(codes)].r # "done")
    => (pc = "retry" /\ retry = Len(codes))

\* C12: a first attempt answered with a status other than 429 and a result
\* code other than done prints the warning, is not retried and is not fatal:
\* main() goes on with the next entry of the page, or with the page's end.
C12_WarnAndContinue ==
    [][(/\ pc = "star"
        /\ Len(submitted') = Len(submitted) + 1
        /\ s' # 429
        /\ r' # "done")
       => (/\ log' = "warn"
           /\ pc' \notin {"retry", "fatal"}
           /\ idx' = idx + 1
           /\ idx < Len(result) => pc' = "star"
           /\ Len(codes') = 1
           /\ result' = result)]_vars

C12_Witness ==
    /\ log = "warn"
    /\ codes = <<[s |-> 200, r |-> "error"]>>
    /\ pc = "star"
    /\ idx = 2
    /\ Len(submitted) = 1

\* C13: a page with a status other than 200 is fatal: nothing of it is
\* filtered or submitted, the store keeps what it has, the error is printed
\* and no page is requested afterwards in that run.
C13_SourceErrorFatal ==
    [][(status' # 200 /\ run' = run)
       => (/\ pc' = "fatal"
           /\ submitted' = submitted
           /\ store' = store
           /\ hit_most_recent' = hit_most_recent
           /\ status = 200 => (log' = "error" /\ result' = <<>>)
           /\ status # 200 => fetched' = fetched)]_vars

C13_Witness ==
    /\ pc = "fatal"
    /\ status = 403
    /\ log = "error"
    /\ Len(fetched) >= 2
    /\ Len(store) >= 1
    /\ added >= 1

\* C14: once the filter has found the target on a page, no page is requested
\* any more in that run, and when the run is Done every entry the filter left
\* of that page has been submitted, in page order.
C14_StopAtBoundary ==
    /\ [](hit_most_recent => pc \in {"star", "retry", "done", "fatal"})
    /\ []((hit_most_recent /\ pc = "done")
          => /\ Len(submitted) >= Len(result)
             /\ \A k \in 1..Len(result) :
                    submitted[Len(submitted) - Len(result) + k] = result[k].id)
    /\ [][(hit_most_recent /\ run' = run) => fetched' = fetched]_vars

C14_Witness ==
    /\ hit_most_recent
    /\ pc = "done"
    /\ Len(result) >= 1
    /\ fetched[Len(fetched)] < Pages
    /\ Pages >= 3

\* position of repository i in the listing of the current run
PosOf(i) == IF sort_dir = "asc" THEN i ELSE stars0 + 1 - i

\* C15: the repositories are submitted in the order of the listing: what is
\* submitted later stands later in the listing.
C15_ListingOrder ==
    \A i, j \in 1..Len(submitted) :
        i < j => PosOf(submitted[i]) < PosOf(submitted[j])

\* C16: after a run that ended in Done, submitted something and had every
\* posts/add answered 200/done, the newest bookmark is the bookmark of the
\* most recently starred repository.
C16_CursorIsNewest ==
    (pc = "done" /\ runClean /\ Len(submitted) >= 1)
    => (Len(store) >= 1 /\ store[Len(store)].id = stars0)

\* C17: in one run a repository gets at most 1 + MAX_RETRIES requests, and
\* its first attempt is issued once.
C17_BoundedSubmissions ==
    /\ Len(codes) <= 1 + MAX_RETRIES
    /\ NoDup(submitted)

Present(x) == x.some /\ Len(x.val) > 0

\* C18: for every combination of null and non-null description, homepage
\* and language the request is built: description = full_name, url =
\* html_url, replace = no, tags = github-star plus the lower-cased language
\* when there is one, extended = the description plus the homepage note
\* when there is a homepage.
C18_PublishNullable ==
    ab.ret =>
        LET g == ab.gh_data
            o == ab.out
        IN /\ ~o.raised
           /\ o.description = g.full_name
           /\ o.url = g.html_url
           /\ o.replace = "no"
           /\ o.tags[1] = "github-star"
           /\ Len(o.tags) = IF Present(g.language) THEN 2 ELSE 1
           /\ Present(g.language) =>
                  o.tags[2] = (IF g.language.val[1] = "Python" THEN "python"
                               ELSE g.language.val[1])
           /\ ~Present(g.homepage) => o.extended = g.description
           /\ Present(g.homepage) =>
                  /\ o.extended.some
                  /\ o.extended.val[Len(o.extended.val)] = g.homepage.val[1]

====
